---- MODULE Spec2Model ----
(***************************************************************************)
(* A model of bin/harmonise.py: the per-type normalisers, the geometry     *)
(* resolver, the enum index loader, the default carry-forward and the row  *)
(* loop of __main__.                                                        *)
(*                                                                         *)
(* A Python str is modelled as a sequence of one-character strings, so     *)
(* that parsing and formatting are computed character by character.        *)
(***************************************************************************)
EXTENDS Integers, Sequences, FiniteSets, TLC

\* ------------------------------------------------------------------------
\* Characters and generic string helpers (Python str methods)
\* ------------------------------------------------------------------------

Digit == {"0", "1", "2", "3", "4", "5", "6", "7", "8", "9"}

DigitSeq == <<"0", "1", "2", "3", "4", "5", "6", "7", "8", "9">>

\* str.split() / regex \s whitespace
WS == {" ", "\t", "\n", "\r"}

UpperSeq == <<"A", "B", "C", "D", "E", "F", "G", "H", "I", "J", "K", "L", "M",
              "N", "O", "P", "Q", "R", "S", "T", "U", "V", "W", "X", "Y", "Z">>

LowerSeq == <<"a", "b", "c", "d", "e", "f", "g", "h", "i", "j", "k", "l", "m",
              "n", "o", "p", "q", "r", "s", "t", "u", "v", "w", "x", "y", "z">>

LowerLetter == {LowerSeq[i] : i \in 1..26}

DigitVal(c) == (CHOOSE i \in 1..10 : DigitSeq[i] = c) - 1

LowerChar(c) ==
    IF \E i \in 1..26 : UpperSeq[i] = c
    THEN LowerSeq[CHOOSE i \in 1..26 : UpperSeq[i] = c]
    ELSE c

\* str.lower()
Lower(s) == [i \in 1..Len(s) |-> LowerChar(s[i])]

\* s without the characters of drop
Without(s, drop) == LET keep(c) == c \notin drop IN SelectSeq(s, keep)

\* str.lstrip(chars) / str.rstrip(chars) / str.strip(chars)
LStrip(s, chars) ==
    IF \A i \in 1..Len(s) : s[i] \in chars THEN <<>>
    ELSE SubSeq(s, CHOOSE i \in 1..Len(s) :
                    s[i] \notin chars /\ \A j \in 1..(i - 1) : s[j] \in chars, Len(s))

RStrip(s, chars) ==
    IF \A i \in 1..Len(s) : s[i] \in chars THEN <<>>
    ELSE SubSeq(s, 1, CHOOSE i \in 1..Len(s) :
                    s[i] \notin chars /\ \A j \in (i + 1)..Len(s) : s[j] \in chars)

Strip(s, chars) == RStrip(LStrip(s, chars), chars)

\* "".join(parts) for a sequence of strings
RECURSIVE Join(_)
Join(parts) == IF parts = <<>> THEN <<>> ELSE Head(parts) \o Join(Tail(parts))

\* the index of the first character of s in C, 0 when there is none
FirstIn(s, C) ==
    IF \E i \in 1..Len(s) : s[i] \in C
    THEN CHOOSE i \in 1..Len(s) : s[i] \in C /\ \A j \in 1..(i - 1) : s[j] \notin C
    ELSE 0

\* " ".join(s.split()): whitespace runs collapsed to one space, ends trimmed
CollapseWS(s) ==
    Join([i \in 1..Len(s) |->
        IF s[i] \notin WS THEN <<s[i]>>
        ELSE IF /\ i > 1 /\ s[i - 1] \notin WS
                /\ \E j \in (i + 1)..Len(s) : s[j] \notin WS
        THEN <<" ">>
        ELSE <<>>])

\* "".join(s.split()): all whitespace removed
RemoveWS(s) == Without(s, WS)

\* str.replace(a, b) for a single character a and a string b
ReplaceChar(s, a, b) == Join([i \in 1..Len(s) |-> IF s[i] = a THEN b ELSE <<s[i]>>])

IsDigits(s) == \A i \in 1..Len(s) : s[i] \in Digit

\* the length of the longest prefix of s made of characters of C
PrefixLen(s, C) ==
    LET k == FirstIn(s, {s[i] : i \in 1..Len(s)} \ C) IN
    IF k = 0 THEN Len(s) ELSE k - 1

StripLeadingZeros(ds) ==
    LET t == LStrip(ds, {"0"}) IN IF t = <<>> THEN <<"0">> ELSE t

\* int(<digits>) for a short digit string
RECURSIVE DigitsToNat(_)
DigitsToNat(ds) ==
    IF ds = <<>> THEN 0
    ELSE 10 * DigitsToNat(SubSeq(ds, 1, Len(ds) - 1)) + DigitVal(ds[Len(ds)])

\* str(n) for a natural number n
RECURSIVE NatToDigits(_)
NatToDigits(n) ==
    IF n < 10 THEN <<DigitSeq[n + 1]>>
    ELSE NatToDigits(n \div 10) \o <<DigitSeq[(n % 10) + 1]>>

\* str(int(ds) + 1) on a digit string
RECURSIVE IncDigits(_)
IncDigits(ds) ==
    IF ds = <<>> THEN <<"1">>
    ELSE IF ds[Len(ds)] = "9"
         THEN IncDigits(SubSeq(ds, 1, Len(ds) - 1)) \o <<"0">>
         ELSE SubSeq(ds, 1, Len(ds) - 1) \o <<DigitSeq[DigitVal(ds[Len(ds)]) + 2]>>

Zeros(n) == [i \in 1..n |-> "0"]

\* ------------------------------------------------------------------------
\* Results of a normaliser: the returned str, the log_issue calls it made
\* (field, datatype, value), and whether it raised instead of returning.
\* ------------------------------------------------------------------------

Ret(v) == [value |-> v, issues |-> <<>>, raised |-> FALSE]

Fail(fieldname, datatype, v) ==
    [value |-> <<>>,
     issues |-> <<[field |-> fieldname, datatype |-> datatype, value |-> v]>>,
     raised |-> FALSE]

Raise == [value |-> <<>>, issues |-> <<>>, raised |-> TRUE]

\* ------------------------------------------------------------------------
\* integers
\* ------------------------------------------------------------------------

\* int(str) on the sign and the rest of the stripped string
ParseIntBody(neg, body) ==
    IF /\ body # <<>>
       /\ body[1] \in Digit /\ body[Len(body)] \in Digit
       /\ \A i \in 1..Len(body) : body[i] \in Digit \cup {"_"}
       /\ \A i \in 1..(Len(body) - 1) : ~(body[i] = "_" /\ body[i + 1] = "_")
    THEN [ok |-> TRUE, neg |-> neg, digits |-> StripLeadingZeros(Without(body, {"_"}))]
    ELSE [ok |-> FALSE, neg |-> neg, digits |-> <<>>]

ParseIntStripped(t) ==
    IF t # <<>> /\ Head(t) \in {"+", "-"}
    THEN ParseIntBody(Head(t) = "-", Tail(t))
    ELSE ParseIntBody(FALSE, t)

\* int(str): optional whitespace around, optional sign, digits with single
\* underscores between them.  [ok, neg, digits]
ParseInt(s) == ParseIntStripped(Strip(s, WS))

\* str(int(value)) on a parsed integer
format_integer(n) ==
    IF n.neg /\ n.digits # <<"0">> THEN <<"-">> \o n.digits ELSE n.digits

\* u without a final "." "0"+, u itself when it has none
CutDotZeros(u, z) ==
    IF Len(z) < Len(u) /\ z # <<>> /\ z[Len(z)] = "."
    THEN SubSeq(z, 1, Len(z) - 1) ELSE u

\* normalise_integer.regex.sub("", value, 1) with regex \.0+$ ; $ also
\* matches before one trailing newline
SubTrailingZeros(s) ==
    IF s # <<>> /\ s[Len(s)] = "\n"
    THEN CutDotZeros(SubSeq(s, 1, Len(s) - 1),
                     RStrip(SubSeq(s, 1, Len(s) - 1), {"0"})) \o <<"\n">>
    ELSE CutDotZeros(s, RStrip(s, {"0"}))

IntegerResult(field, v, n) ==
    IF ~n.ok THEN Fail(field, "integer", v) ELSE Ret(format_integer(n))

IntegerOf(field, v) == IntegerResult(field, v, ParseInt(v))

normalise_integer(field, value) == IntegerOf(field, SubTrailingZeros(value))

\* ------------------------------------------------------------------------
\* decimal.Decimal: sign, coefficient digits, exponent (arbitrary precision)
\* ------------------------------------------------------------------------

\* the default context's precision: a quantize whose result needs more
\* coefficient digits raises InvalidOperation
ContextPrec == 28

Fin(neg, digits, exp) == [kind |-> "fin", neg |-> neg, digits |-> digits, exp |-> exp]

IsZero(d) == d.kind = "fin" /\ d.digits = <<"0">>

NotDecimal == [ok |-> FALSE, d |-> [kind |-> "none", neg |-> FALSE, digits |-> <<>>, exp |-> 0]]

\* the numeric form: integer part, fraction part and the exponent's text
\* (hasExp: an "e" was present)
ParseNumber(neg, ip, fp, hasExp, expS) ==
    LET eSgn == expS # <<>> /\ Head(expS) \in {"+", "-"}
        eDig == IF eSgn THEN Tail(expS) ELSE expS
    IN  IF ~(IsDigits(ip) /\ IsDigits(fp) /\ (ip # <<>> \/ fp # <<>>)) THEN NotDecimal
        ELSE IF hasExp /\ ~(eDig # <<>> /\ IsDigits(eDig)) THEN NotDecimal
        ELSE [ok |-> TRUE,
              d |-> Fin(neg, StripLeadingZeros(ip \o fp),
                        (IF ~hasExp THEN 0
                         ELSE IF eSgn /\ Head(expS) = "-" THEN 0 - DigitsToNat(eDig)
                         ELSE DigitsToNat(eDig)) - Len(fp))]

ParseMantissa(neg, mant, dot, hasExp, expS) ==
    IF dot = 0 THEN ParseNumber(neg, mant, <<>>, hasExp, expS)
    ELSE ParseNumber(neg, SubSeq(mant, 1, dot - 1), SubSeq(mant, dot + 1, Len(mant)),
                     hasExp, expS)

ParseExponent(neg, body, ePos) ==
    IF ePos = 0 THEN ParseMantissa(neg, body, FirstIn(body, {"."}), FALSE, <<>>)
    ELSE ParseMantissa(neg, SubSeq(body, 1, ePos - 1),
                       FirstIn(SubSeq(body, 1, ePos - 1), {"."}),
                       TRUE, SubSeq(body, ePos + 1, Len(body)))

ParseDecimalBody(neg, body) ==
    IF body \in {<<"i", "n", "f">>, <<"i", "n", "f", "i", "n", "i", "t", "y">>}
    THEN [ok |-> TRUE, d |-> [kind |-> "inf", neg |-> neg, digits |-> <<"0">>, exp |-> 0]]
    ELSE IF Len(body) >= 3 /\ SubSeq(body, 1, 3) = <<"n", "a", "n">>
            /\ IsDigits(SubSeq(body, 4, Len(body)))
    THEN [ok |-> TRUE, d |-> [kind |-> "nan", neg |-> neg, digits |-> <<>>, exp |-> 0]]
    ELSE IF Len(body) >= 4 /\ SubSeq(body, 1, 4) = <<"s", "n", "a", "n">>
            /\ IsDigits(SubSeq(body, 5, Len(body)))
    THEN [ok |-> TRUE, d |-> [kind |-> "snan", neg |-> neg, digits |-> <<>>, exp |-> 0]]
    ELSE ParseExponent(neg, body, FirstIn(body, {"e"}))

ParseDecimalStripped(t) ==
    IF t # <<>> /\ Head(t) \in {"+", "-"}
    THEN ParseDecimalBody(Head(t) = "-", Tail(t))
    ELSE ParseDecimalBody(FALSE, t)

\* Decimal(str): [ok, d].  Surrounding whitespace and underscores are dropped,
\* letters match case-insensitively.
ParseDecimal(s) == ParseDecimalStripped(Lower(Without(Strip(s, WS), {"_"})))

\* Decimal._round_half_even on the coefficient cut to its first k digits:
\* TRUE when the kept part is to be incremented
RoundUpHalfEven(ds, k) ==
    LET rest     == SubSeq(ds, k + 1, Len(ds))
        half     == rest[1] = "5" /\ \A i \in 2..Len(rest) : rest[i] = "0"
        lastEven == k = 0 \/ ds[k] \in {"0", "2", "4", "6", "8"}
    IN  IF half /\ lastEven THEN FALSE
        ELSE rest[1] \in {"5", "6", "7", "8", "9"}

\* Decimal._rescale(exp, ROUND_HALF_EVEN) of a finite decimal
Rescale(d, exp) ==
    IF IsZero(d) THEN Fin(d.neg, <<"0">>, exp)
    ELSE IF d.exp >= exp THEN Fin(d.neg, d.digits \o Zeros(d.exp - exp), exp)
    ELSE LET k0   == Len(d.digits) + d.exp - exp
             src  == IF k0 < 0 THEN <<"1">> ELSE d.digits
             k    == IF k0 < 0 THEN 0 ELSE k0
             kept == IF k = 0 THEN <<"0">> ELSE SubSeq(src, 1, k)
             c    == IF RoundUpHalfEven(src, k) THEN IncDigits(kept) ELSE kept
         IN  Fin(d.neg, StripLeadingZeros(c), exp)

Quantized(r) == [raised |-> Len(r.digits) > ContextPrec, d |-> r]

\* round(d, precision) = d.quantize(Decimal((0, (1,), -precision))):
\* [raised, d]
RoundDecimal(d, precision) ==
    IF d.kind = "nan" THEN [raised |-> FALSE, d |-> d]
    ELSE IF d.kind \in {"snan", "inf"} THEN [raised |-> TRUE, d |-> d]
    ELSE Quantized(Rescale(d, 0 - precision))

\* Decimal.normalize(): trailing zeros of the coefficient move to the exponent
NormalizeDecimal(d) ==
    IF d.kind # "fin" THEN d
    ELSE IF IsZero(d) THEN Fin(d.neg, <<"0">>, 0)
    ELSE LET z == RStrip(d.digits, {"0"}) IN
         Fin(d.neg, z, d.exp + (Len(d.digits) - Len(z)))

\* str(Decimal)
StrDecimal(d) ==
    LET sign == IF d.neg THEN <<"-">> ELSE <<>>
        n    == Len(d.digits)
        left == d.exp + n
        dotplace == IF d.exp <= 0 /\ left > -6 THEN left ELSE 1
        intpart  == IF dotplace <= 0 THEN <<"0">>
                    ELSE IF dotplace >= n THEN d.digits \o Zeros(dotplace - n)
                    ELSE SubSeq(d.digits, 1, dotplace)
        fracpart == IF dotplace <= 0 THEN <<".">> \o Zeros(0 - dotplace) \o d.digits
                    ELSE IF dotplace >= n THEN <<>>
                    ELSE <<".">> \o SubSeq(d.digits, dotplace + 1, n)
        e    == left - dotplace
        expS == IF e = 0 THEN <<>>
                ELSE IF e > 0 THEN <<"E", "+">> \o NatToDigits(e)
                ELSE <<"E", "-">> \o NatToDigits(0 - e)
    IN  IF d.kind = "inf" THEN sign \o <<"I", "n", "f", "i", "n", "i", "t", "y">>
        ELSE IF d.kind = "nan" THEN sign \o <<"N", "a", "N">>
        ELSE IF d.kind = "snan" THEN sign \o <<"s", "N", "a", "N">>
        ELSE sign \o intpart \o fracpart \o expS

FormatRounded(r) ==
    IF r.raised THEN Raise ELSE Ret(StrDecimal(NormalizeDecimal(r.d)))

\* format_decimal(value, precision): str(round(Decimal(value), precision).normalize())
\* on a value that already is a Decimal; raises when round() raises
format_decimal(d, precision) == FormatRounded(RoundDecimal(d, precision))

\* the default of format_decimal's precision parameter
DefaultPrecision == 6

DecimalResult(field, value, p) ==
    IF ~p.ok THEN Fail(field, "decimal", value)
    ELSE format_decimal(p.d, DefaultPrecision)

\* normalise_decimal: the precision argument is accepted and not passed on
normalise_decimal(field, value, precision) ==
    DecimalResult(field, value, ParseDecimal(value))

\* ------------------------------------------------------------------------
\* dates: datetime.strptime / strftime
\* ------------------------------------------------------------------------

MonthNames ==
    <<<<"j", "a", "n", "u", "a", "r", "y">>,
      <<"f", "e", "b", "r", "u", "a", "r", "y">>,
      <<"m", "a", "r", "c", "h">>,
      <<"a", "p", "r", "i", "l">>,
      <<"m", "a", "y">>,
      <<"j", "u", "n", "e">>,
      <<"j", "u", "l", "y">>,
      <<"a", "u", "g", "u", "s", "t">>,
      <<"s", "e", "p", "t", "e", "m", "b", "e", "r">>,
      <<"o", "c", "t", "o", "b", "e", "r">>,
      <<"n", "o", "v", "e", "m", "b", "e", "r">>,
      <<"d", "e", "c", "e", "m", "b", "e", "r">>>>

Directives == {"%Y", "%y", "%m", "%d", "%H", "%M", "%S", "%b", "%B"}

\* the characters of s from position j, at most n of them
Peek(s, j, n) == SubSeq(s, j, IF j + n - 1 > Len(s) THEN Len(s) ELSE j + n - 1)

Two(s, j) == Peek(s, j, 2)

TwoDigits(s, j) == Len(Two(s, j)) = 2 /\ IsDigits(Two(s, j))

OneDigit(s, j) == j <= Len(s) /\ s[j] \in Digit

\* The alternatives of one element of a format at position j of s, in the
\* order the regular expression of _strptime tries them: <<[len, val], ...>>
Alts(el, s, j) ==
    LET two == IF TwoDigits(s, j) THEN DigitsToNat(Two(s, j)) ELSE -1
        one == IF OneDigit(s, j) THEN DigitVal(s[j]) ELSE -1
        a2(ok) == IF two >= 0 /\ ok THEN <<[len |-> 2, val |-> two]>> ELSE <<>>
        a1(ok) == IF one >= 0 /\ ok THEN <<[len |-> 1, val |-> one]>> ELSE <<>>
        name(k, n) == Lower(Peek(s, j, n)) = SubSeq(MonthNames[k], 1, n)
        run == PrefixLen(SubSeq(s, j, Len(s)), WS)
    IN  CASE el = "%Y" ->
               IF Len(Peek(s, j, 4)) = 4 /\ IsDigits(Peek(s, j, 4))
               THEN <<[len |-> 4, val |-> DigitsToNat(Peek(s, j, 4))]>> ELSE <<>>
          [] el = "%y" -> a2(TRUE)
          [] el = "%m" -> a2(two >= 1 /\ two <= 12) \o a1(one >= 1)
          [] el = "%d" ->
               a2(two >= 1 /\ two <= 31) \o a1(one >= 1) \o
               (IF Len(Two(s, j)) = 2 /\ s[j] = " " /\ s[j + 1] \in Digit \ {"0"}
                THEN <<[len |-> 2, val |-> DigitVal(s[j + 1])]>> ELSE <<>>)
          [] el = "%H" -> a2(two <= 23) \o a1(TRUE)
          [] el = "%M" -> a2(two <= 59) \o a1(TRUE)
          [] el = "%S" -> a2(two <= 61) \o a1(TRUE)
          [] el = "%b" ->
               IF \E k \in 1..12 : name(k, 3)
               THEN <<[len |-> 3, val |-> CHOOSE k \in 1..12 : name(k, 3)]>> ELSE <<>>
          [] el = "%B" ->
               IF \E k \in 1..12 : name(k, Len(MonthNames[k]))
               THEN LET k == CHOOSE k \in 1..12 : name(k, Len(MonthNames[k]))
                    IN  <<[len |-> Len(MonthNames[k]), val |-> k]>>
               ELSE <<>>
          [] el \in WS -> [i \in 1..run |-> [len |-> run + 1 - i, val |-> 0]]
          [] OTHER ->
               IF j <= Len(s) /\ LowerChar(s[j]) = LowerChar(el)
               THEN <<[len |-> 1, val |-> 0]>> ELSE <<>>

NoMatch == [ok |-> FALSE, end |-> 0, env |-> [x \in {} |-> 0]]

\* re.match of the format's regular expression: the first match in the
\* backtracking order, as [ok, end, env] with env the directives' values
RECURSIVE MatchFrom(_, _, _, _, _)
RECURSIVE TryAlts(_, _, _, _, _, _, _)
MatchFrom(pat, k, s, j, env) ==
    IF k > Len(pat) THEN [ok |-> TRUE, end |-> j - 1, env |-> env]
    ELSE CHOOSE r \in {TryAlts(pat, k, s, j, env, alts, 1) : alts \in {Alts(pat[k], s, j)}} : TRUE

TryAlts(pat, k, s, j, env, alts, i) ==
    IF i > Len(alts) THEN NoMatch
    ELSE LET e == IF pat[k] \in Directives
                  THEN [x \in DOMAIN env \cup {pat[k]} |->
                           IF x = pat[k] THEN alts[i].val ELSE env[x]]
                  ELSE env
         IN  CHOOSE x \in
                 {IF r.ok THEN r ELSE TryAlts(pat, k, s, j, env, alts, i + 1) :
                      r \in {MatchFrom(pat, k + 1, s, j2, e2) :
                                j2 \in {j + alts[i].len}, e2 \in {e}}} : TRUE

IsLeap(y) == (y % 4 = 0 /\ y % 100 # 0) \/ y % 400 = 0

DaysInMonth(y, m) ==
    IF m = 2 THEN (IF IsLeap(y) THEN 29 ELSE 28)
    ELSE IF m \in {4, 6, 9, 11} THEN 30 ELSE 31

\* the date of a match r of the whole of a value n characters long
DateOfMatch(r, n) ==
    LET g(x, dflt) == IF x \in DOMAIN r.env THEN r.env[x] ELSE dflt
        year  == IF "%Y" \in DOMAIN r.env THEN r.env["%Y"]
                 ELSE IF g("%y", -1) >= 0
                 THEN (IF g("%y", -1) < 69 THEN 2000 + g("%y", -1) ELSE 1900 + g("%y", -1))
                 ELSE 1900
        month == IF "%m" \in DOMAIN r.env THEN r.env["%m"]
                 ELSE IF "%b" \in DOMAIN r.env THEN r.env["%b"]
                 ELSE g("%B", 1)
        day   == g("%d", 1)
    IN  [ok |-> /\ r.ok
                /\ r.end = n
                /\ year >= 1
                /\ day <= DaysInMonth(year, month)
                /\ g("%S", 0) <= 59,
         year |-> year, month |-> month, day |-> day]

\* datetime.strptime(value, pattern): [ok, year, month, day]; ok is FALSE
\* where strptime raises ValueError
strptime(value, pat) ==
    DateOfMatch(MatchFrom(pat, 1, value, 1, [x \in {} |-> 0]), Len(value))

Pad2(n) == IF n < 10 THEN <<"0">> \o NatToDigits(n) ELSE NatToDigits(n)

\* date.strftime("%Y-%m-%d")
strftime(date) ==
    NatToDigits(date.year) \o <<"-">> \o Pad2(date.month) \o <<"-">> \o Pad2(date.day)

\* the pattern list of normalise_date, in its order
DatePatterns ==
    <<
       <<"%Y", "-", "%m", "-", "%d">>,   \* %Y-%m-%d
       <<"%Y", "%m", "%d">>,   \* %Y%m%d
       <<"%Y", "-", "%m", "-", "%d", "T", "%H", ":", "%M", ":", "%S", ".", "0", "0", "0", "Z">>,   \* %Y-%m-%dT%H:%M:%S.000Z
       <<"%Y", "-", "%m", "-", "%d", "T", "%H", ":", "%M", ":", "%S", "Z">>,   \* %Y-%m-%dT%H:%M:%SZ
       <<"%Y", "-", "%m", "-", "%d", "T", "%H", ":", "%M", ":", "%S">>,   \* %Y-%m-%dT%H:%M:%S
       <<"%Y", "-", "%m", "-", "%d", " ", "%H", ":", "%M", ":", "%S">>,   \* %Y-%m-%d %H:%M:%S
       <<"%Y", "/", "%m", "/", "%d">>,   \* %Y/%m/%d
       <<"%Y", " ", "%m", " ", "%d">>,   \* %Y %m %d
       <<"%Y", ".", "%m", ".", "%d">>,   \* %Y.%m.%d
       <<"%Y", "-", "%d", "-", "%m">>,   \* %Y-%d-%m
       <<"%Y">>,   \* %Y
       <<"%Y", ".", "0">>,   \* %Y.0
       <<"%d", "/", "%m", "/", "%Y", " ", "%H", ":", "%M", ":", "%S">>,   \* %d/%m/%Y %H:%M:%S
       <<"%d", "/", "%m", "/", "%Y", " ", "%H", ":", "%M">>,   \* %d/%m/%Y %H:%M
       <<"%d", "-", "%m", "-", "%Y">>,   \* %d-%m-%Y
       <<"%d", "-", "%m", "-", "%y">>,   \* %d-%m-%y
       <<"%d", "-", "%m", "-", "%Y">>,   \* %d-%m-%Y
       <<"%d", ".", "%m", ".", "%Y">>,   \* %d.%m.%Y
       <<"%d", ".", "%m", ".", "%y">>,   \* %d.%m.%y
       <<"%d", "/", "%m", "/", "%Y">>,   \* %d/%m/%Y
       <<"%d", "/", "%m", "/", "%y">>,   \* %d/%m/%y
       <<"%d", "-", "%b", "-", "%Y">>,   \* %d-%b-%Y
       <<"%d", "-", "%b", "-", "%y">>,   \* %d-%b-%y
       <<"%d", " ", "%B", " ", "%Y">>,   \* %d %B %Y
       <<"%b", " ", "%d", ",", " ", "%Y">>,   \* %b %d, %Y
       <<"%b", " ", "%d", ",", " ", "%y">>,   \* %b %d, %y
       <<"%b", "-", "%y">>,   \* %b-%y
       <<"%m", "/", "%d", "/", "%Y">>   \* %m/%d/%Y
    >>

\* a loop over the patterns in which the last pattern that parses wins
TryPatternsLast(value, pats, i) ==
    LET S == {k \in i..Len(pats) : strptime(value, pats[k]).ok} IN
    IF S = {} THEN [ok |-> FALSE, index |-> 0, out |-> <<>>]
    ELSE LET m == CHOOSE n \in S : \A j \in S : j <= n
         IN  [ok |-> TRUE, index |-> m, out |-> strftime(strptime(value, pats[m]))]

\* the for loop of normalise_date: the first pattern that parses wins
RECURSIVE TryPatterns(_, _, _)
TryPattern(value, pats, i, d) ==
    IF d.ok THEN [ok |-> TRUE, index |-> i, out |-> strftime(d)]
    ELSE TryPatterns(value, pats, i + 1)

TryPatterns(value, pats, i) ==
    IF i > Len(pats) THEN [ok |-> FALSE, index |-> 0, out |-> <<>>]
    ELSE TryPattern(value, pats, i, strptime(value, pats[i]))

DateResult(field, fieldvalue, r) ==
    IF r.ok THEN Ret(r.out) ELSE Fail(field, "date", fieldvalue)

\* normalise_date(context, fieldvalue); the failure is logged under the
\* module-level name field, which the row loop binds to the current field
normalise_date(context, fieldvalue, field) ==
    DateResult(field, fieldvalue,
               TryPatterns(Strip(fieldvalue, {" ", "\"", ","}), DatePatterns, 1))

\* ------------------------------------------------------------------------
\* URIs
\* ------------------------------------------------------------------------

HttpPrefix == <<"h", "t", "t", "p", ":", "/", "/">>

HttpsPrefix == <<"h", "t", "t", "p", "s", ":", "/", "/">>

StartsWith(s, pre) == Len(s) >= Len(pre) /\ SubSeq(s, 1, Len(pre)) = pre

\* validators.url(uri), the external "is a syntactically valid URL" check:
\* an http or https scheme, a non-empty rest, no whitespace and no quotes
validators_url(uri) ==
    /\ \/ StartsWith(Lower(uri), HttpPrefix) /\ Len(uri) > Len(HttpPrefix)
       \/ StartsWith(Lower(uri), HttpsPrefix) /\ Len(uri) > Len(HttpsPrefix)
    /\ \A i \in 1..Len(uri) : uri[i] \notin WS \cup {"\""}

normalise_uri(field, value) ==
    LET uri == RemoveWS(value) IN
    IF validators_url(uri) THEN Ret(uri) ELSE Fail(field, "uri", value)

\* ------------------------------------------------------------------------
\* addresses
\* ------------------------------------------------------------------------

\* regex (\s*c\s*){1,} replaced by repl: every maximal run of whitespace and
\* c that holds at least one c
SubRuns(s, c, repl) ==
    LET in(i)    == s[i] \in WS \cup {c}
        \* i and j lie in one run
        same(i, j) == \A k \in (IF i < j THEN i ELSE j)..(IF i < j THEN j ELSE i) : in(k)
        hasC(i)  == \E j \in 1..Len(s) : s[j] = c /\ same(i, j)
        first(i) == i = 1 \/ ~in(i - 1)
    IN  Join([i \in 1..Len(s) |->
            IF ~in(i) THEN <<s[i]>>
            ELSE IF ~hasC(i) THEN <<s[i]>>
            ELSE IF first(i) THEN repl
            ELSE <<>>])

\* the model's character for the right double quotation mark U+201D
RDQuo == "{rdquo}"

normalise_address(field, value) ==
    LET v1 == ReplaceChar(value, "\n", <<",", " ">>)
        v2 == ReplaceChar(v1, ";", <<",">>)
        v3 == SubRuns(v2, ",", <<",", " ">>)
        v4 == Strip(v3, {",", " "})
        v5 == SubRuns(v4, "-", <<"-">>)
        v6 == Without(CollapseWS(v5), {"\""})
    IN  Ret(Without(v6, {RDQuo}))

\* ------------------------------------------------------------------------
\* enums
\* ------------------------------------------------------------------------

EnumKept == LowerLetter \cup Digit \cup {"-", "_", " "}

\* normalise_enum_value: lower-case, every other character to a space,
\* whitespace collapsed
normalise_enum_value(value) ==
    LET l == Lower(value) IN
    CollapseWS([i \in 1..Len(l) |-> IF l[i] \in EnumKept THEN l[i] ELSE " "])

\* dict[key] = val
Put(d, key, val) == [x \in DOMAIN d \cup {key} |-> IF x = key THEN val ELSE d[x]]

EmptyDict == [x \in {} |-> 0]

\* the first loop of load_field_value over one field's constraints.enum
RECURSIVE SeedEnums(_, _, _)
SeedEnums(enums, i, fv) ==
    IF i > Len(enums) THEN fv
    ELSE SeedEnums(enums, i + 1, Put(fv, normalise_enum_value(enums[i]), enums[i]))

HasEnum(fieldspec) ==
    "constraints" \in DOMAIN fieldspec /\ "enum" \in DOMAIN fieldspec.constraints

\* the first loop of load_field_value: [field_enum, field_value]
RECURSIVE LoadSchemaEnums(_, _, _)
LoadSchemaEnums(fs, i, acc) ==
    IF i > Len(fs) THEN acc
    ELSE IF HasEnum(fs[i])
    THEN LET n  == fs[i].name
             es == fs[i].constraints.enum
             fe == IF n \in DOMAIN acc.field_enum THEN acc.field_enum[n] ELSE {}
             fv == IF n \in DOMAIN acc.field_value THEN acc.field_value[n] ELSE EmptyDict
         IN  LoadSchemaEnums(fs, i + 1,
                 [field_enum  |-> Put(acc.field_enum, n, fe \cup {es[k] : k \in 1..Len(es)}),
                  field_value |-> Put(acc.field_value, n, SeedEnums(es, 1, fv)),
                  raised      |-> FALSE])
    ELSE LoadSchemaEnums(fs, i + 1, acc)

\* a patch row the check of load_field_value would let through though its
\* enum is not declared
AcceptPatchRow(fenum, r) == TRUE

\* the check of a patch row: field_enum[fieldname] exists (else KeyError)
\* and holds the row's enum (else ValueError)
ValidPatchRow(fenum, r) == r.field \in DOMAIN fenum /\ r.enum \in fenum[r.field]

\* field_value.setdefault(fieldname, {}); field_value[fieldname][value] = enum
PatchFieldValue(fv, r) ==
    Put(fv, r.field,
        Put(IF r.field \in DOMAIN fv THEN fv[r.field] ELSE EmptyDict,
            normalise_enum_value(r.value), r.enum))

\* the second loop of load_field_value over the rows of patch/enum.csv;
\* raised at the first row that fails the check
RECURSIVE LoadEnumPatch(_, _, _)
LoadEnumPatch(rows, i, acc) ==
    IF i > Len(rows) THEN acc
    ELSE IF ~ValidPatchRow(acc.field_enum, rows[i])
    THEN [acc EXCEPT !.raised = TRUE]
    ELSE LoadEnumPatch(rows, i + 1,
             [acc EXCEPT !.field_value = PatchFieldValue(acc.field_value, rows[i])])

\* load_field_value(): [field_enum, field_value, raised]
load_field_value(sch, patchrows) ==
    LoadEnumPatch(patchrows, 1,
        LoadSchemaEnums(sch.fields, 1,
            [field_enum |-> EmptyDict, field_value |-> EmptyDict, raised |-> FALSE]))

normalise_enum(field, fieldvalue, fvalue) ==
    LET value == normalise_enum_value(fieldvalue) IN
    IF field \in DOMAIN fvalue /\ value \in DOMAIN fvalue[field]
    THEN Ret(fvalue[field][value])
    ELSE Fail(field, "enum", fieldvalue)

\* ------------------------------------------------------------------------
\* organisations
\* ------------------------------------------------------------------------

lower_uri(value) == Lower(RemoveWS(value))

\* regex .*/ removed: on every line, all up to its last "/"
RECURSIVE SubToLastSlash(_)
SubToLastSlash(s) ==
    LET nl   == FirstIn(s, {"\n"})
        line == IF nl = 0 THEN s ELSE SubSeq(s, 1, nl - 1)
        cut  == IF \E i \in 1..Len(line) : line[i] = "/"
                THEN SubSeq(line, 1 + CHOOSE i \in 1..Len(line) :
                                line[i] = "/" /\ \A j \in (i + 1)..Len(line) : line[j] # "/",
                            Len(line))
                ELSE line
    IN  IF nl = 0 THEN cut
        ELSE cut \o <<"\n">> \o SubToLastSlash(SubSeq(s, nl + 1, Len(s)))

end_of_uri(value) == SubToLastSlash(Lower(RStrip(value, {"/"})))

\* s.replace(a, b) for strings a and b
RECURSIVE ReplaceStr(_, _, _)
ReplaceStr(s, a, b) ==
    IF s = <<>> THEN <<>>
    ELSE IF StartsWith(s, a) THEN b \o ReplaceStr(SubSeq(s, Len(a) + 1, Len(s)), a, b)
    ELSE <<Head(s)>> \o ReplaceStr(Tail(s), a, b)

\* a in s
Contains(s, a) == \E i \in 1..(Len(s) - Len(a) + 1) : SubSeq(s, i, i + Len(a) - 1) = a

LocalAuthorityEng == <<"l", "o", "c", "a", "l", "-", "a", "u", "t", "h", "o", "r", "i", "t", "y", "-", "e", "n", "g">>

DlUrlPrefix == <<"h", "t", "t", "p", "s", ":", "/", "/", "d", "i", "g", "i", "t", "a", "l", "-", "l", "a", "n", "d", ".", "g", "i", "t", "h", "u", "b", ".", "i", "o", "/", "o", "r", "g", "a", "n", "i", "s", "a", "t", "i", "o", "n", "/">>

\* the first loop of load_organisations over var/cache/organisation.csv
RECURSIVE LoadOrganisationRows(_, _, _)
LoadOrganisationRows(rows, i, idx) ==
    IF i > Len(rows) THEN idx
    ELSE LET r   == rows[i]
             uri == Lower(r.opendatacommunities)
             a   == Put(idx, Lower(r.organisation), uri)
             b   == Put(a, uri, uri)
             c   == Put(b, end_of_uri(uri), uri)
             d   == Put(c, Lower(r.statistical_geography), uri)
             dl  == ReplaceStr(Lower(DlUrlPrefix \o r.organisation \o <<"/">>),
                               <<"-", "e", "n", "g", ":">>, <<"-", "e", "n", "g", "/">>)
             e   == IF Contains(r.organisation, LocalAuthorityEng)
                    THEN Put(d, dl, uri) ELSE d
         IN  LoadOrganisationRows(rows, i + 1, e)

\* the second loop of load_organisations over patch/organisation.csv;
\* raised when a row names an organisation the register does not hold
RECURSIVE LoadOrganisationPatch(_, _, _, _)
LoadOrganisationPatch(rows, i, register, acc) ==
    IF i > Len(rows) THEN acc
    ELSE LET r == rows[i]
             hit == {k \in 1..Len(register) : register[k].organisation = r.organisation}
         IN  IF r.organisation = <<>> THEN LoadOrganisationPatch(rows, i + 1, register, acc)
             ELSE IF hit = {} THEN [acc EXCEPT !.raised = TRUE]
             ELSE LoadOrganisationPatch(rows, i + 1, register,
                     [acc EXCEPT !.index =
                         Put(acc.index, lower_uri(r.value),
                             register[CHOOSE k \in hit : \A m \in hit : m <= k]
                                 .opendatacommunities)])

\* load_organisations(): [index, raised]
load_organisations(register, patchrows) ==
    LoadOrganisationPatch(patchrows, 1, register,
        [index |-> LoadOrganisationRows(register, 1, EmptyDict), raised |-> FALSE])

OrganisationResult(field, fieldvalue, index, value, s) ==
    IF value \in DOMAIN index THEN Ret(index[value])
    ELSE IF s \in DOMAIN index THEN Ret(index[s])
    ELSE Fail(field, "opendatacommunities-uri", fieldvalue)

normalise_organisation_uri(field, fieldvalue, index) ==
    OrganisationResult(field, fieldvalue, index,
                       lower_uri(fieldvalue), end_of_uri(lower_uri(fieldvalue)))

\* ------------------------------------------------------------------------
\* normalise: the dispatch on the field's schema entry
\* ------------------------------------------------------------------------

Get(rec, key, dflt) == IF key \in DOMAIN rec THEN rec[key] ELSE dflt

\* the loop over the field's strip patterns; a pattern is a literal character
RECURSIVE ApplyStrips(_, _)
ApplyStrips(value, strips) ==
    IF strips = <<>> THEN value
    ELSE ApplyStrips(Without(value, {Head(strips)}), Tail(strips))

FieldSpec(sch, fieldname) ==
    sch.fields[CHOOSE i \in 1..Len(sch.fields) : sch.fields[i].name = fieldname]

\* the dispatch of normalise on the field's schema entry fs, its extension
\* block extra and the stripped value
Dispatch(fieldname, value, fs, extra, orgindex, fvalue, gfield) ==
    IF fieldname = "OrganisationURI"
    THEN normalise_organisation_uri(fieldname, value, orgindex)
    ELSE IF Get(fs, "type", "") = "integer"
    THEN normalise_integer(fieldname, value)
    ELSE IF Get(fs, "type", "") = "number"
    THEN normalise_decimal(fieldname, value, Get(extra, "precision", 6))
    ELSE IF Get(fs, "type", "") = "date"
    THEN normalise_date(fieldname, value, gfield)
    ELSE IF Get(fs, "format", "") = "uri"
    THEN normalise_uri(fieldname, value)
    ELSE IF Get(extra, "format", "") = "address"
    THEN normalise_address(fieldname, value)
    ELSE IF "enum" \in DOMAIN Get(fs, "constraints", EmptyDict)
    THEN normalise_enum(fieldname, value, fvalue)
    ELSE Ret(value)

NormaliseWith(fieldname, value0, fs, extra, orgindex, fvalue, gfield) ==
    Dispatch(fieldname, ApplyStrips(value0, Get(extra, "strip", <<>>)), fs, extra,
             orgindex, fvalue, gfield)

\* normalise(fieldname, value), with the module-level state it reads:
\* the schema, organisation_uri, field_value and the loop variable field
normalise(fieldname, value0, sch, orgindex, fvalue, gfield) ==
    IF value0 = <<>> THEN Ret(<<>>)
    ELSE NormaliseWith(fieldname, value0, FieldSpec(sch, fieldname),
                       Get(FieldSpec(sch, fieldname), "digital_land", EmptyDict),
                       orgindex, fvalue, gfield)

\* ------------------------------------------------------------------------
\* geometry
\* ------------------------------------------------------------------------

\* digit strings of equal length compared as numbers
DigitsLess(a, b) ==
    \E i \in 1..Len(a) :
        /\ DigitVal(a[i]) < DigitVal(b[i])
        /\ \A j \in 1..(i - 1) : a[j] = b[j]

\* |a| < |b| for finite decimals
MagLess(a, b) ==
    LET e  == IF a.exp < b.exp THEN a.exp ELSE b.exp
        x  == StripLeadingZeros(a.digits \o Zeros(a.exp - e))
        y  == StripLeadingZeros(b.digits \o Zeros(b.exp - e))
    IN  Len(x) < Len(y) \/ (Len(x) = Len(y) /\ DigitsLess(x, y))

\* a < b for decimals that are finite or infinite
DecLess(a, b) ==
    LET az == IsZero(a)
        bz == IsZero(b)
        an == a.neg /\ ~az
        bn == b.neg /\ ~bz
        magLess(x, y) == IF x.kind = "inf" THEN FALSE
                         ELSE IF y.kind = "inf" THEN TRUE
                         ELSE MagLess(x, y)
    IN  IF an /\ ~bn THEN TRUE
        ELSE IF ~an /\ bn THEN FALSE
        ELSE IF an THEN magLess(b, a)
        ELSE magLess(a, b)

IsNaN(d) == d.kind \in {"nan", "snan"}

Dec(neg, digits, exp) == Fin(neg, digits, exp)

\* the bounds of within_england: 49.5, 56.0, -7.0, 2
LatMin == Dec(FALSE, <<"4", "9", "5">>, -1)

LatMax == Dec(FALSE, <<"5", "6", "0">>, -1)

LonMin == Dec(TRUE, <<"7", "0">>, -1)

LonMax == Dec(FALSE, <<"2">>, 0)

\* within_england(geox, geoy); an ordering comparison of a NaN raises
within_england(geox, geoy) ==
    DecLess(LatMin, geoy) /\ DecLess(geoy, LatMax) /\
    DecLess(LonMin, geox) /\ DecLess(geox, LonMax)

Inf == [kind |-> "inf", neg |-> FALSE, digits |-> <<"0">>, exp |-> 0]

\* osgb_to_wgs84.transform on the eastings and northings the inputs use:
\* the (lat, lon) the external reprojection from EPSG:27700 to EPSG:4326 gives
OsgbTable ==
    <<[e |-> <<"5", ".", "3", "E", "+", "5">>, n |-> <<"1", ".", "8", "E", "+", "5">>,
       lat |-> Dec(FALSE, <<"5", "1", "5", "0", "3", "9", "9", "0", "8">>, -7),
       lon |-> Dec(TRUE, <<"1", "2", "8", "3", "5", "4", "0">>, -7)],
      [e |-> <<"-", "0", ".", "1">>, n |-> <<"-", "0", ".", "1">>,
       lat |-> Dec(FALSE, <<"4", "9", "7", "6", "6", "8", "0", "6", "2">>, -7),
       lon |-> Dec(TRUE, <<"7", "5", "5", "7", "1", "6", "1", "1">>, -7)],
      [e |-> <<"5", "1", ".", "5">>, n |-> <<"5", "1", ".", "5">>,
       lat |-> Dec(FALSE, <<"4", "9", "7", "6", "7", "3", "0", "2", "5">>, -7),
       lon |-> Dec(TRUE, <<"7", "5", "5", "6", "5", "0", "0", "9">>, -7)],
      [e |-> <<"5", ".", "3", "E", "+", "5">>, n |-> <<"5", "1", ".", "5">>,
       lat |-> Dec(FALSE, <<"4", "9", "8", "8", "6", "6", "0", "0", "7">>, -7),
       lon |-> Dec(TRUE, <<"1", "9", "1", "6", "4", "8", "0">>, -7)],
      [e |-> <<"5", ".", "3", "E", "+", "5">>, n |-> <<"-", "0", ".", "1">>,
       lat |-> Dec(FALSE, <<"4", "9", "8", "8", "6", "1", "3", "6", "9">>, -7),
       lon |-> Dec(TRUE, <<"1", "9", "1", "6", "6", "5", "4">>, -7)],
      [e |-> <<"-", "0", ".", "1">>, n |-> <<"1", ".", "8", "E", "+", "5">>,
       lat |-> Dec(FALSE, <<"5", "1", "3", "7", "7", "6", "4", "8", "5">>, -7),
       lon |-> Dec(TRUE, <<"7", "7", "5", "0", "6", "1", "2", "8">>, -7)],
      [e |-> <<"1", ".", "8", "E", "+", "5">>, n |-> <<"-", "0", ".", "1">>,
       lat |-> Dec(FALSE, <<"4", "9", "8", "5", "9", "7", "6", "9", "3">>, -7),
       lon |-> Dec(TRUE, <<"5", "0", "6", "2", "3", "4", "7", "6">>, -7)],
      [e |-> <<"5", "1", ".", "5">>, n |-> <<"1", ".", "8", "E", "+", "5">>,
       lat |-> Dec(FALSE, <<"5", "1", "3", "7", "7", "6", "8", "4", "8">>, -7),
       lon |-> Dec(TRUE, <<"7", "7", "4", "9", "8", "7", "5", "1">>, -7)],
      [e |-> <<"1", ".", "8", "E", "+", "5">>, n |-> <<"5", "1", ".", "5">>,
       lat |-> Dec(FALSE, <<"4", "9", "8", "6", "0", "2", "3", "2", "8">>, -7),
       lon |-> Dec(TRUE, <<"5", "0", "6", "2", "3", "7", "6", "9">>, -7)]>>

\* osgb_to_wgs84.transform(easting, northing) -> (lat, lon); inf where the
\* reprojection has no result
OsgbLookup(hit) ==
    IF hit = {} THEN [lat |-> Inf, lon |-> Inf]
    ELSE [lat |-> OsgbTable[CHOOSE k \in hit : TRUE].lat,
          lon |-> OsgbTable[CHOOSE k \in hit : TRUE].lon]

OsgbFind(e, n) ==
    OsgbLookup({k \in 1..Len(OsgbTable) : OsgbTable[k].e = e /\ OsgbTable[k].n = n})

osgb_to_wgs84(x, y) ==
    OsgbFind(StrDecimal(NormalizeDecimal(x)), StrDecimal(NormalizeDecimal(y)))

GeometryRaise(row) == [row |-> row, issues |-> <<>>, raised |-> TRUE]

Blanked(row) == [row EXCEPT !["GeoX"] = <<>>, !["GeoY"] = <<>>]

\* row["GeoX"] = format_decimal(lon); row["GeoY"] = format_decimal(lat)
SetGeometry(row, fx, fy) ==
    IF fx.raised \/ fy.raised THEN GeometryRaise(row)
    ELSE [row |-> [row EXCEPT !["GeoX"] = fx.value, !["GeoY"] = fy.value],
          issues |-> <<>>, raised |-> FALSE]

SetLonLat(row, lon, lat) ==
    SetGeometry(row, format_decimal(lon, DefaultPrecision),
                format_decimal(lat, DefaultPrecision))

\* the else branch of normalise_geometry: the two reprojections t1 and t2
Reproject(row, t1, t2) ==
    IF within_england(t1.lon, t1.lat) THEN SetLonLat(row, t1.lon, t1.lat)
    ELSE IF within_england(t2.lon, t2.lat) THEN SetLonLat(row, t2.lon, t2.lat)
    ELSE [row |-> row,
          issues |-> <<[field |-> "GeoX,GeoY", datatype |-> "OSGB",
                        value |-> row["GeoX"] \o <<",">> \o row["GeoY"]]>>,
          raised |-> FALSE]

\* normalise_geometry after row["GeoX"] and row["GeoY"] are blanked
ResolveGeometry(row, geox, geoy) ==
    IF IsNaN(geox) \/ IsNaN(geoy) THEN GeometryRaise(row)
    ELSE IF within_england(geox, geoy) THEN SetLonLat(row, geox, geoy)
    ELSE IF within_england(geoy, geox) THEN SetLonLat(row, geoy, geox)
    ELSE Reproject(row, osgb_to_wgs84(geox, geoy), osgb_to_wgs84(geoy, geox))

ParsedGeometry(row, px, py) ==
    IF ~px.ok \/ ~py.ok THEN GeometryRaise(row)
    ELSE ResolveGeometry(Blanked(row), px.d, py.d)

\* normalise_geometry(row): [row, issues, raised]
normalise_geometry(row) ==
    IF Get(row, "GeoX", <<>>) = <<>> \/ Get(row, "GeoY", <<>>) = <<>>
    THEN [row |-> row, issues |-> <<>>, raised |-> FALSE]
    ELSE ParsedGeometry(row, ParseDecimal(row["GeoX"]), ParseDecimal(row["GeoY"]))

\* ------------------------------------------------------------------------
\* default carry-forward
\* ------------------------------------------------------------------------

\* default(o) without its first loop: blank fields stay blank
default_skip_fill(o, dvalues) == o

\* the first loop of default(o): blank fields take the stored value
default_fill(o, dvalues) ==
    [f \in DOMAIN o |->
        IF f \in DOMAIN dvalues /\ o[f] = <<>> THEN dvalues[f] ELSE o[f]]

\* a second loop that stores a field's value only when none is stored yet
RECURSIVE default_commit_first(_, _, _)
default_commit_first(o, dvalues, dup) ==
    IF dup = <<>> THEN dvalues
    ELSE default_commit_first(o,
             IF Head(dup) \in DOMAIN dvalues THEN dvalues
             ELSE Put(dvalues, Head(dup), o[Head(dup)]),
             Tail(dup))

\* the second loop of default(o): the stored values become the row's values
RECURSIVE default_commit(_, _, _)
default_commit(o, dvalues, dup) ==
    IF dup = <<>> THEN dvalues
    ELSE default_commit(o, Put(dvalues, Head(dup), o[Head(dup)]), Tail(dup))


\* ------------------------------------------------------------------------
\* The inputs: schemas, reference files and rows
\* ------------------------------------------------------------------------

\* the number of rows of an input file of the row loop
MaxRows == 2

\* the number of rows of an input file of the carry-forward runs
MaxCarryRows == 5

GeoXField == [name |-> "GeoX", type |-> "number"]

GeoYField == [name |-> "GeoY", type |-> "number"]

DeliverableField ==
    [name |-> "Deliverable", type |-> "string",
     constraints |-> [enum |-> <<<<"y", "e", "s">>, <<"n", "o">>>>]]

DateField == [name |-> "FirstAddedDate", type |-> "date"]

IntegerField ==
    [name |-> "MinNetDwellings", type |-> "integer",
     digital_land |-> [strip |-> <<"~">>]]

OrganisationField == [name |-> "OrganisationURI", type |-> "string", format |-> "uri"]

UrlField == [name |-> "SiteplanURL", type |-> "string", format |-> "uri"]

AddressField ==
    [name |-> "SiteNameAddress", type |-> "string",
     digital_land |-> [format |-> "address"]]

HectaresField ==
    [name |-> "Hectares", type |-> "number", digital_land |-> [precision |-> 2]]

NotesField == [name |-> "Notes", type |-> "string"]

StatusField ==
    [name |-> "PlanningStatus", type |-> "string",
     constraints |-> [enum |-> <<<<"X">>, <<"Y">>>>]]

GeoSchema == [fields |-> <<GeoXField, GeoYField>>, duplicate |-> <<>>]

MixedSchema ==
    [fields |-> <<DeliverableField, DateField, IntegerField>>,
     duplicate |-> <<"Deliverable">>]

TextSchema ==
    [fields |-> <<OrganisationField, UrlField, AddressField>>,
     duplicate |-> <<"OrganisationURI">>]

CarrySchema == [fields |-> <<StatusField>>, duplicate |-> <<"PlanningStatus">>]

NormSchema ==
    [fields |-> <<OrganisationField, IntegerField, HectaresField, GeoXField, DateField,
                  UrlField, AddressField, DeliverableField, NotesField>>,
     duplicate |-> <<>>]

fieldnames(sch) == [i \in 1..Len(sch.fields) |-> sch.fields[i].name]

\* var/cache/organisation.csv
OrganisationCsv ==
    <<[organisation |-> <<"l", "o", "c", "a", "l", "-", "a", "u", "t", "h", "o", "r", "i", "t", "y", "-", "e", "n", "g", ":", "X">>,
       opendatacommunities |-> <<"h", "t", "t", "p", ":", "/", "/", "o", "/", "i", "d", "/", "X">>,
       statistical_geography |-> <<"E", "1">>]>>

\* patch/organisation.csv
OrganisationPatchCsv ==
    <<[value |-> <<"X", " ", "C", "o", "u", "n", "c", "i", "l">>, organisation |-> <<"l", "o", "c", "a", "l", "-", "a", "u", "t", "h", "o", "r", "i", "t", "y", "-", "e", "n", "g", ":", "X">>],
      [value |-> <<"n", "o", "w", "h", "e", "r", "e">>, organisation |-> <<>>]>>

\* the contents patch/enum.csv may have under a schema
EnumPatches(sch) ==
    IF sch = MixedSchema
    THEN {<<>>,
          <<[field |-> "Deliverable", enum |-> <<"y", "e", "s">>, value |-> <<"Y">>]>>,
          <<[field |-> "Deliverable", enum |-> <<"m", "a", "y", "b", "e">>, value |-> <<"m">>]>>,
          <<[field |-> "FirstAddedDate", enum |-> <<"y", "e", "s">>, value |-> <<"y">>]>>}
    ELSE IF sch = NormSchema
    THEN {<<>>,
          <<[field |-> "Deliverable", enum |-> <<"y", "e", "s">>, value |-> <<"Y">>],
            [field |-> "Deliverable", enum |-> <<"n", "o">>, value |-> <<"Y", "e", "s">>]>>}
    ELSE {<<>>}

\* the raw values a row may hold for a field of the row loop's schemas
RawValues(fs) ==
    CASE fs.name = "GeoX" ->
           {<<>>, <<"-", "0", ".", "1">>, <<"5", "1", ".", "5">>, <<"5", "3", "0", "0", "0", "0">>, <<"N", "a", "N">>, <<"I", "n", "f", "i", "n", "i", "t", "y">>}
      [] fs.name = "GeoY" ->
           {<<>>, <<"5", "1", ".", "5">>, <<"-", "0", ".", "1">>, <<"1", "8", "0", "0", "0", "0">>}
      [] fs.name = "Deliverable" -> {<<>>, <<"Y", "e", "s">>, <<"?">>}
      [] fs.name = "FirstAddedDate" -> {<<"0", "1", "/", "0", "2", "/", "2", "0", "2", "0">>, <<"s", "o", "o", "n">>}
      [] fs.name = "MinNetDwellings" -> {<<"~", "4", "2", ".", "0">>, <<"n", "/", "a">>}
      [] fs.name = "OrganisationURI" -> {<<>>, <<"l", "o", "c", "a", "l", "-", "a", "u", "t", "h", "o", "r", "i", "t", "y", "-", "e", "n", "g", ":", "X">>, <<"z", "z">>}
      [] fs.name = "SiteplanURL" -> {<<"h", "t", "t", "p", ":", "/", "/", "a", " ", "b">>, <<"x">>}
      [] fs.name = "SiteNameAddress" -> {<<>>, <<"a", " ", ";", "b">>}
      [] fs.name = "PlanningStatus" -> {<<>>, <<"x">>, <<"y">>, <<"?">>}
      [] OTHER -> {<<>>, <<"n">>}

\* the rows csv.DictReader may yield: every schema field present
Rows(sch) ==
    {r \in [{sch.fields[i].name : i \in 1..Len(sch.fields)} ->
                UNION {RawValues(sch.fields[i]) : i \in 1..Len(sch.fields)}] :
        \A i \in 1..Len(sch.fields) : r[sch.fields[i].name] \in RawValues(sch.fields[i])}

\* ------------------------------------------------------------------------
\* The state of a run
\* ------------------------------------------------------------------------

VARIABLES
    pc,                \* the position of __main__
    schema,            \* the schema file
    patch,             \* the rows of patch/enum.csv
    organisation_uri,  \* the organisation index
    field_enum,        \* per field, the enum tokens of the schema
    field_value,       \* per field, normalised value -> enum token
    default_values,    \* the carry-forward state
    row_number,        \* the number of the row being processed
    input,             \* the rows read so far
    row,               \* the row being processed
    field,             \* the module-level loop variable of the row loop
    o,                 \* the record being assembled
    log,               \* the rows written to the issue log
    output             \* the records written

vars == <<pc, schema, patch, organisation_uri, field_enum, field_value, default_values,
          row_number, input, row, field, o, log, output>>

InitWith(schemas) ==
    /\ pc = "start"
    /\ schema \in schemas
    /\ patch \in EnumPatches(schema)
    /\ organisation_uri = EmptyDict
    /\ field_enum = EmptyDict
    /\ field_value = EmptyDict
    /\ default_values = EmptyDict
    /\ row_number = 0
    /\ input = <<>>
    /\ row = EmptyDict
    /\ field = ""
    /\ o = EmptyDict
    /\ log = <<>>
    /\ output = <<>>

Init == InitWith({GeoSchema, MixedSchema, TextSchema})

\* log_issue: the issues of one call, written with the current row number
Logged(issues, n) ==
    [i \in 1..Len(issues) |->
        [row_number |-> n, field |-> issues[i].field,
         datatype |-> issues[i].datatype, value |-> issues[i].value]]

\* load_organisations() of __main__
LoadOrganisations ==
    /\ pc = "start"
    /\ LET done(r) ==
              /\ organisation_uri' = r.index
              /\ pc' = IF r.raised THEN "aborted" ELSE "organisations"
       IN  done(load_organisations(OrganisationCsv, OrganisationPatchCsv))
    /\ UNCHANGED <<schema, patch, field_enum, field_value, default_values, row_number,
                   input, row, field, o, log, output>>

\* load_field_value() of __main__, then the output file is opened
LoadFieldValue ==
    /\ pc = "organisations"
    /\ LET done(r) ==
              /\ field_enum' = r.field_enum
              /\ field_value' = r.field_value
              /\ pc' = IF r.raised THEN "aborted" ELSE "read"
       IN  done(load_field_value(schema, patch))
    /\ UNCHANGED <<schema, patch, organisation_uri, default_values, row_number,
                   input, row, field, o, log, output>>

\* for row in reader: row_number += 1; o = {}
ReadRow(limit) ==
    /\ pc = "read"
    /\ row_number < limit
    /\ \E r \in Rows(schema) :
          /\ row' = r
          /\ input' = Append(input, r)
    /\ row_number' = row_number + 1
    /\ o' = EmptyDict
    /\ pc' = "fields"
    /\ UNCHANGED <<schema, patch, organisation_uri, field_enum, field_value,
                   default_values, field, log, output>>

\* the reader is exhausted
EndOfInput ==
    /\ pc = "read"
    /\ pc' = "done"
    /\ UNCHANGED <<schema, patch, organisation_uri, field_enum, field_value,
                   default_values, row_number, input, row, field, o, log, output>>

\* one turn of: for field in fieldnames: o[field] = normalise(field, row[field])
NormaliseField ==
    /\ pc = "fields"
    /\ LET turn(f, last) ==
              LET done(r) ==
                     /\ field' = f
                     /\ log' = log \o Logged(r.issues, row_number)
                     /\ o' = IF r.raised THEN o ELSE Put(o, f, r.value)
                     /\ pc' = IF r.raised THEN "crashed"
                              ELSE IF last THEN "geometry"
                              ELSE "fields"
              IN  done(normalise(f, row[f], schema, organisation_uri, field_value, f))
       IN  turn(fieldnames(schema)[Cardinality(DOMAIN o) + 1],
                Cardinality(DOMAIN o) + 1 = Len(schema.fields))
    /\ UNCHANGED <<schema, patch, organisation_uri, field_enum, field_value,
                   default_values, row_number, input, row, output>>

\* o = normalise_geometry(o)
Geometry ==
    /\ pc = "geometry"
    /\ LET done(r) ==
              /\ o' = r.row
              /\ log' = log \o Logged(r.issues, row_number)
              /\ pc' = IF r.raised THEN "crashed" ELSE "default"
       IN  done(normalise_geometry(o))
    /\ UNCHANGED <<schema, patch, organisation_uri, field_enum, field_value,
                   default_values, row_number, input, row, field, output>>

\* the first loop of default(o)
DefaultFill ==
    /\ pc = "default"
    /\ o' = default_fill(o, default_values)
    /\ pc' = "commit"
    /\ UNCHANGED <<schema, patch, organisation_uri, field_enum, field_value,
                   default_values, row_number, input, row, field, log, output>>

\* the second loop of default(o)
DefaultCommit ==
    /\ pc = "commit"
    /\ default_values' = default_commit(o, default_values, schema.duplicate)
    /\ pc' = "write"
    /\ UNCHANGED <<schema, patch, organisation_uri, field_enum, field_value,
                   row_number, input, row, field, o, log, output>>

\* writer.writerow(o)
WriteRow ==
    /\ pc = "write"
    /\ output' = Append(output, o)
    /\ pc' = "read"
    /\ UNCHANGED <<schema, patch, organisation_uri, field_enum, field_value,
                   default_values, row_number, input, row, field, o, log>>

Next ==
    \/ LoadOrganisations
    \/ LoadFieldValue
    \/ ReadRow(MaxRows)
    \/ EndOfInput
    \/ NormaliseField
    \/ Geometry
    \/ DefaultFill
    \/ DefaultCommit
    \/ WriteRow

Spec == Init /\ [][Next]_vars


\* ------------------------------------------------------------------------
\* Failed fields, crashes, geometry and the enum patch (under Spec)
\* ------------------------------------------------------------------------

\* the issue-log rows of row k under field f
IssuesOf(k, f) == {i \in 1..Len(log) : log[i].row_number = k /\ log[i].field = f}

\* the raw value of field f of row k is non-empty and fails normalisation
FailsNormalisation(k, f) ==
    /\ input[k][f] # <<>>
    /\ normalise(f, input[k][f], schema, organisation_uri, field_value, f).issues # <<>>

\* C2: every field of an emitted record whose non-empty raw value failed
\* normalisation is the empty string in the record and has exactly one
\* issue-log row, and the row of every failed field that was seen through
\* is emitted; duplicate-listed fields included.
C2_FailedFieldEmittedEmpty ==
    \A k \in 1..Len(output) : \A f \in DOMAIN output[k] :
        FailsNormalisation(k, f) =>
            /\ output[k][f] = <<>>
            /\ Cardinality(IssuesOf(k, f)) = 1

\* C3: the row loop never raises, and the k-th row read is the k-th record
\* written: once a row is done, as many records are written as rows were read.
C3_NeverRaises ==
    /\ pc # "crashed"
    /\ pc \in {"read", "done"} => Len(output) = row_number /\ Len(input) = row_number

\* C4: a geometry step that finds GeoX or GeoY blank leaves both blank and
\* logs nothing.
C4_BlankGeometryBlanksBoth ==
    [][(/\ pc = "geometry"
        /\ {"GeoX", "GeoY"} \subseteq DOMAIN o
        /\ (o["GeoX"] = <<>> \/ o["GeoY"] = <<>>))
       => (/\ o'["GeoX"] = <<>>
           /\ o'["GeoY"] = <<>>
           /\ log' = log)]_vars

\* the pair reaching the geometry step is within England in none of the
\* four readings
NoReadingInEngland(x, y) ==
    /\ ~IsNaN(x) /\ ~IsNaN(y)
    /\ ~within_england(x, y)
    /\ ~within_england(y, x)
    /\ ~within_england(osgb_to_wgs84(x, y).lon, osgb_to_wgs84(x, y).lat)
    /\ ~within_england(osgb_to_wgs84(y, x).lon, osgb_to_wgs84(y, x).lat)

\* C5: a geometry step on a non-blank pair that is within England in no
\* reading blanks both fields and logs one row under "GeoX,GeoY" with
\* datatype "OSGB" whose value is the pair it was given, joined by a comma.
C5_FailedGeometryLogsPair ==
    [][(/\ pc = "geometry"
        /\ {"GeoX", "GeoY"} \subseteq DOMAIN o
        /\ o["GeoX"] # <<>> /\ o["GeoY"] # <<>>
        /\ ParseDecimal(o["GeoX"]).ok /\ ParseDecimal(o["GeoY"]).ok
        /\ NoReadingInEngland(ParseDecimal(o["GeoX"]).d, ParseDecimal(o["GeoY"]).d))
       => (/\ o'["GeoX"] = <<>>
           /\ o'["GeoY"] = <<>>
           /\ Len(log') = Len(log) + 1
           /\ log'[Len(log')].field = "GeoX,GeoY"
           /\ log'[Len(log')].datatype = "OSGB"
           /\ log'[Len(log')].value \in
                  {o["GeoX"] \o <<",">> \o o["GeoY"],
                   row["GeoX"] \o <<",">> \o row["GeoY"]})]_vars

\* the schema declares enum token e for field f
Declared(f, e) ==
    \E i \in 1..Len(schema.fields) :
        /\ schema.fields[i].name = f
        /\ "constraints" \in DOMAIN schema.fields[i]
        /\ "enum" \in DOMAIN schema.fields[i].constraints
        /\ \E k \in 1..Len(schema.fields[i].constraints.enum) :
              schema.fields[i].constraints.enum[k] = e

\* some row of patch/enum.csv names an enum its field does not declare
BadPatch == \E i \in 1..Len(patch) : ~Declared(patch[i].field, patch[i].enum)

Loaded == pc \notin {"start", "organisations"}

\* C6: with a patch row whose enum is not declared for its field (or whose
\* field declares no enum) loading aborts and no row is read and no record
\* written; without one loading completes and every key of the enum index
\* maps to a token the schema declares for the field.
C6_FatalPatchValidation ==
    /\ BadPatch =>
          /\ Loaded => pc = "aborted"
          /\ row_number = 0 /\ input = <<>> /\ output = <<>> /\ log = <<>>
    /\ ~BadPatch /\ Loaded =>
          /\ pc # "aborted"
          /\ \A i \in 1..Len(patch) :
                /\ patch[i].field \in DOMAIN field_value
                /\ normalise_enum_value(patch[i].value) \in DOMAIN field_value[patch[i].field]
          /\ \A f \in DOMAIN field_value : \A v \in DOMAIN field_value[f] :
                Declared(f, field_value[f][v])

\* loading has aborted on an undeclared patch enum
C6_Witness == pc = "aborted" /\ BadPatch


\* ------------------------------------------------------------------------
\* Carry-forward over longer inputs (SpecCarry)
\* ------------------------------------------------------------------------

InitCarry == InitWith({CarrySchema})

NextCarry ==
    \/ LoadOrganisations
    \/ LoadFieldValue
    \/ ReadRow(MaxCarryRows)
    \/ EndOfInput
    \/ NormaliseField
    \/ Geometry
    \/ DefaultFill
    \/ DefaultCommit
    \/ WriteRow

SpecCarry == InitCarry /\ [][NextCarry]_vars

\* the normalised own value of field f of row k
Own(k, f) == normalise(f, input[k][f], schema, organisation_uri, field_value, f).value

\* what row k - 1 committed for field f: its emitted value, nothing for k = 1
Committed(k, f) == IF k = 1 THEN <<>> ELSE output[k - 1][f]

\* the value row k is to emit for field f
Carried(k, f) == IF Own(k, f) # <<>> THEN Own(k, f) ELSE Committed(k, f)

DuplicateFields == {schema.duplicate[i] : i \in 1..Len(schema.duplicate)}

\* the stored default of f, "" when none is stored
StoredDefault(f) == IF f \in DOMAIN default_values THEN default_values[f] ELSE <<>>

\* the raw values X, blank, blank, Y, blank
ExampleRows ==
    <<[PlanningStatus |-> <<"x">>], [PlanningStatus |-> <<>>], [PlanningStatus |-> <<>>],
      [PlanningStatus |-> <<"y">>], [PlanningStatus |-> <<>>]>>

\* C1: every emitted value of a duplicate-listed field is the row's own
\* normalised value when that is non-empty, else what the previous row
\* committed (empty for the first row); after the fill step the stored default
\* is still the previous row's while the record already holds the filled
\* value, and after the commit step it is the value about to be emitted.
\* Own values X, blank, blank, Y, blank give X, X, X, Y, Y.
C1_CarryForward ==
    \A f \in DuplicateFields :
        /\ \A k \in 1..Len(output) : output[k][f] = Carried(k, f)
        /\ pc = "commit" =>
              /\ o[f] = Carried(row_number, f)
              /\ StoredDefault(f) = Committed(row_number, f)
        /\ pc = "write" =>
              /\ o[f] = Carried(row_number, f)
              /\ StoredDefault(f) = o[f]
        /\ pc \in {"read", "done"} /\ row_number > 0 =>
              StoredDefault(f) = output[row_number][f]
        /\ (f = "PlanningStatus" /\ Len(output) = 5 /\ input = ExampleRows) =>
              output = <<[PlanningStatus |-> <<"X">>], [PlanningStatus |-> <<"X">>],
                         [PlanningStatus |-> <<"X">>], [PlanningStatus |-> <<"Y">>],
                         [PlanningStatus |-> <<"Y">>]>>

\* the five rows X, blank, blank, Y, blank have been emitted
C1_Witness ==
    /\ Len(output) = 5
    /\ input = ExampleRows
    /\ output[5]["PlanningStatus"] = <<"Y">>

\* C10: once a record with a non-empty value of a duplicate-listed field f is
\* written, the stored default of f is non-empty from then on and every
\* later record has a non-empty f, whatever the later rows hold.
C10_StickyDefault ==
    \A f \in DuplicateFields : \A k \in 1..Len(output) :
        output[k][f] # <<>> =>
            /\ StoredDefault(f) # <<>>
            /\ \A j \in k..Len(output) : output[j][f] # <<>>

\* a value was emitted, then a row whose value fails normalisation and a
\* blank row were emitted
C10_Witness ==
    /\ Len(output) >= 3
    /\ output[1]["PlanningStatus"] # <<>>
    /\ input[2]["PlanningStatus"] = <<"?">>
    /\ input[3]["PlanningStatus"] = <<>>
    /\ pc = "read"

\* ------------------------------------------------------------------------
\* The normalisers applied once and again (SpecNorm)
\* ------------------------------------------------------------------------

\* the raw values normalise is applied to, per field of NormSchema
NormInputs(f) ==
    CASE f = "OrganisationURI" ->
           {<<"l", "o", "c", "a", "l", "-", "a", "u", "t", "h", "o", "r", "i", "t", "y", "-", "e", "n", "g", ":", "X">>,
            <<"X", " ", "C", "o", "u", "n", "c", "i", "l">>,
            <<"h", "t", "t", "p", ":", "/", "/", "o", "/", "i", "d", "/", "X">>,
            <<"z", "z">>}
      [] f = "MinNetDwellings" ->
           {<<"~", "4", "2", ".", "0">>,
            <<"1", "_", "0", "0", "0">>,
            <<"n", "/", "a">>}
      [] f = "Hectares" ->
           {<<"1", ".", "2", "3", "4", "5", "6">>,
            <<"1", ".", "5">>,
            <<"a", "b", "c">>}
      [] f = "GeoX" ->
           {<<"1", ".", "2", "3", "4", "5", "6", "7", "8", "9">>,
            <<"N", "a", "N">>,
            <<"I", "n", "f", "i", "n", "i", "t", "y">>}
      [] f = "FirstAddedDate" ->
           {<<"0", "1", "/", "0", "2", "/", "2", "0", "2", "0">>,
            <<"1", "3", "/", "0", "2", "/", "2", "0", "2", "0">>,
            <<"0", "2", "/", "1", "3", "/", "2", "0", "2", "0">>,
            <<"1", "/", "2", "/", "2", "0", "2", "0">>,
            <<"2", "0", "2", "0", "-", "0", "2", "-", "0", "1">>,
            <<"s", "o", "o", "n">>,
            <<"3", "1", "/", "0", "2", "/", "2", "0", "2", "0">>}
      [] f = "SiteplanURL" ->
           {<<"h", "t", "t", "p", ":", "/", "/", "a", " ", "b">>,
            <<"h", "t", "t", "p", ":", "/", "/", "a", ".", "b">>,
            <<"x">>}
      [] f = "SiteNameAddress" ->
           {<<"a", " ", "\"", " ", "b">>,
            <<"a", " ", "\"", ",", " ", "b">>,
            <<"a", " ", ";", "b">>}
      [] f = "Deliverable" ->
           {<<"Y", "e", "s">>,
            <<"Y">>,
            <<"n", "o">>,
            <<"?">>}
      [] OTHER -> {<<"n">>, <<"n", " ">>}

NormFields == {NormSchema.fields[i].name : i \in 1..Len(NormSchema.fields)}

\* row holds the one raw value, field its field
InitNorm ==
    /\ pc = "start"
    /\ schema = NormSchema
    /\ patch \in EnumPatches(NormSchema)
    /\ organisation_uri = EmptyDict
    /\ field_enum = EmptyDict
    /\ field_value = EmptyDict
    /\ default_values = EmptyDict
    /\ row_number = 0
    /\ input = <<>>
    /\ field \in NormFields
    /\ row \in {[x \in {field} |-> v] : v \in NormInputs(field)}
    /\ o = EmptyDict
    /\ log = <<>>
    /\ output = <<>>

\* o[field] = normalise(field, row[field])
Apply ==
    /\ pc = "read"
    /\ LET done(r) ==
              /\ o' = IF r.raised THEN o ELSE Put(o, field, r.value)
              /\ log' = log \o Logged(r.issues, 1)
              /\ pc' = IF r.raised THEN "crashed" ELSE "applied"
       IN  done(normalise(field, row[field], schema, organisation_uri, field_value, field))
    /\ row_number' = 1
    /\ UNCHANGED <<schema, patch, organisation_uri, field_enum, field_value,
                   default_values, input, row, field, output>>

\* normalise(field, o[field]): the normalised value normalised again
Reapply ==
    /\ pc = "applied"
    /\ LET done(r) ==
              /\ output' = IF r.raised THEN output ELSE <<Put(EmptyDict, field, r.value)>>
              /\ log' = log \o Logged(r.issues, 2)
              /\ pc' = IF r.raised THEN "crashed" ELSE "reapplied"
       IN  done(normalise(field, o[field], schema, organisation_uri, field_value, field))
    /\ row_number' = 2
    /\ UNCHANGED <<schema, patch, organisation_uri, field_enum, field_value,
                   default_values, input, row, field, o>>

NextNorm ==
    \/ LoadOrganisations
    \/ LoadFieldValue
    \/ Apply
    \/ Reapply

SpecNorm == InitNorm /\ [][NextNorm]_vars

DayFirst == <<"%d", "/", "%m", "/", "%Y">>

MonthFirst == <<"%m", "/", "%d", "/", "%Y">>

\* the value normalise_date parses
DateText == Strip(row[field], {" ", "\"", ","})

\* the patterns of the list that parse the value
Parsing == {i \in 1..Len(DatePatterns) : strptime(DateText, DatePatterns[i]).ok}

\* some pattern of the list other than the month-first one parses the value
ParsesBeforeLast ==
    \E i \in 1..Len(DatePatterns) :
        DatePatterns[i] # MonthFirst /\ strptime(DateText, DatePatterns[i]).ok

\* C7: the date normaliser returns the result of the first pattern of the
\* list that parses; the month-first pattern is the last of the list and
\* decides only inputs no other pattern parses, so an input that parses both
\* day-first and month-first resolves day-first ("01/02/2020" gives
\* "2020-02-01"); an input no pattern parses gives "" and one issue of
\* datatype "date" under the field.
C7_DateFirstMatchWins ==
    (field = "FirstAddedDate" /\ pc \in {"applied", "reapplied"}) =>
        /\ DatePatterns[Len(DatePatterns)] = MonthFirst
        /\ Parsing # {} =>
              /\ \E i \in Parsing :
                    /\ \A j \in Parsing : i <= j
                    /\ o[field] = strftime(strptime(DateText, DatePatterns[i]))
              /\ \A i \in 1..Len(log) : log[i].row_number # 1
        /\ (strptime(DateText, DayFirst).ok /\ strptime(DateText, MonthFirst).ok) =>
              o[field] = strftime(strptime(DateText, DayFirst))
        /\ (strptime(DateText, MonthFirst).ok /\ ~ParsesBeforeLast) =>
              o[field] = strftime(strptime(DateText, MonthFirst))
        /\ row[field] = <<"0", "1", "/", "0", "2", "/", "2", "0", "2", "0">> =>
              o[field] = <<"2", "0", "2", "0", "-", "0", "2", "-", "0", "1">>
        /\ Parsing = {} =>
              /\ o[field] = <<>>
              /\ {i \in 1..Len(log) : log[i].row_number = 1} = {1}
              /\ log[1] = [row_number |-> 1, field |-> field, datatype |-> "date",
                           value |-> row[field]]

\* the ambiguous date 01/02/2020 has been normalised
C7_Witness ==
    /\ pc = "applied"
    /\ field = "FirstAddedDate"
    /\ row[field] = <<"0", "1", "/", "0", "2", "/", "2", "0", "2", "0">>
    /\ strptime(DateText, DayFirst).ok /\ strptime(DateText, MonthFirst).ok
    /\ o[field] = <<"2", "0", "2", "0", "-", "0", "2", "-", "0", "1">>

\* the precision the schema configures for the field, 6 when it states none
ConfiguredPrecision(f) ==
    Get(Get(FieldSpec(schema, f), "digital_land", EmptyDict), "precision", 6)

\* C8: a number-typed field's finite value comes out rounded to the
\* precision configured for that field.
C8_RoundsToFieldPrecision ==
    (/\ pc = "applied"
     /\ Get(FieldSpec(schema, field), "type", "") = "number"
     /\ ParseDecimal(row[field]).ok
     /\ ParseDecimal(row[field]).d.kind = "fin")
    => o[field] = format_decimal(ParseDecimal(row[field]).d, ConfiguredPrecision(field)).value

\* C9: a non-empty value a normaliser returned is returned unchanged, with
\* no issue logged, when it is normalised again.
C9_Idempotent ==
    (pc = "reapplied" /\ o[field] # <<>>) =>
        /\ output[1][field] = o[field]
        /\ \A i \in 1..Len(log) : log[i].row_number # 2

====
